---- MODULE Spec2Model ----
(***************************************************************************)
(* v5_bridge: the control loop of src/main.rs.  One cycle = one            *)
(* get_motor_packet attempt on the receive port, the set_velocity          *)
(* dispatches for the decoded packet, and the position / velocity          *)
(* telemetry build and send.                                               *)
(*                                                                         *)
(* Bytes are 0..255.  Time is in milliseconds.  An f32 is the record of    *)
(* its IEEE-754 fields [sign, exp, man]; f64 intermediates of the unit     *)
(* conversions are evaluated in binary fixed point.                        *)
(***************************************************************************)
EXTENDS Integers, Sequences, FiniteSets, TLC

VARIABLES
    rx_wire,          \* receive transport: the bytes still to arrive
    rx_bursts,        \* the stream positions at which a burst of bytes ends
    rx_pos,           \* number of stream bytes taken from the transport so far
    layout,           \* where the two genuine packets sit in the stream
    persistent_motor_buf, \* main.rs:159, the carry-over buffer
    buf_src,          \* for each buffered byte, its position in the stream
    pc,               \* position of the control loop
    elapsed,          \* Instant::now() - start_time at the last evaluation
    carried,          \* length of the buffer when get_motor_packet was entered
    i,                \* main.rs:158, telemetry rotation counter
    cycle,            \* number of control cycles started
    motor_packet,     \* result of this cycle's get_motor_packet
    scan_pre,         \* the buffer the last successful scan examined
    returned,         \* stream extents of the packets returned so far
    rx_faults,        \* number of failed transport reads so far
    calls,            \* set_velocity calls made in this cycle
    disconnected,     \* motors whose port reports an error
    motor_position,   \* per channel, the angle position() reads (milliradians)
    motor_velocity,   \* per channel, the rate velocity() reads (RPM)
    position_packet,  \* main.rs:183
    velocity_packet,  \* main.rs:214
    tx_port           \* the last write attempted on the transmit port

vars == <<rx_wire, rx_bursts, rx_pos, layout, persistent_motor_buf, buf_src, pc, elapsed,
          carried, i, cycle, motor_packet, scan_pre, returned, rx_faults, calls, disconnected,
          motor_position, motor_velocity, position_packet, velocity_packet, tx_port>>

----------------------------------------------------------------------------
(* Bounds of the model *)

MaxCycles == 4        \* control cycles explored
MaxJitter == 49       \* longest overrun of the 1 ms sleep, in ms
MaxRxFaults == 1      \* failed transport reads explored
MaxNoise == 37        \* longest noise segment of a stream

----------------------------------------------------------------------------
(* Generic helpers *)

Min(a, b) == IF a < b THEN a ELSE b

Range(s) == {s[j] : j \in DOMAIN s}

RECURSIVE Reverse(_)
Reverse(s) == IF s = <<>> THEN <<>> ELSE Append(Reverse(Tail(s)), Head(s))

RECURSIVE Flatten(_)
Flatten(ss) == IF ss = <<>> THEN <<>> ELSE Head(ss) \o Flatten(Tail(ss))

RECURSIVE Repeat(_, _)
Repeat(s, n) == IF n = 0 THEN <<>> ELSE s \o Repeat(s, n - 1)

\* s[a..b) with 0-based offsets, as a Rust range
Slice(s, a, b) == SubSeq(s, a + 1, b)

----------------------------------------------------------------------------
(* Packet layout, main.rs:14-31 *)

\* the hexadecimal digits of the constant, most significant byte first
MOTOR_PACKET_MAGIC == <<254, 250, 171, 205, 18, 52, 190, 239>>
ENCODER_POSITION_MAGIC == <<242, 59, 222, 173, 103, 137, 172, 189>>
ENCODER_VELOCITY_MAGIC == <<248, 28, 176, 11, 19, 80, 192, 202>>

\* u64::to_le_bytes: least significant byte first
to_le_bytes(magic) == Reverse(magic)

\* size_of_val(&MOTOR_PACKET_MAGIC)
SizeOfMagic == Len(MOTOR_PACKET_MAGIC)

\* the seven f32 fields in declaration order
Fields == <<"front_left", "back_left", "back_right", "front_right",
            "intake1", "intake2", "intake3">>

Channels == Range(Fields)

SizeOfF32 == 4

\* size_of::<MotorPacket>() under repr(C, packed(1))
SizeOfMotorPacket == SizeOfMagic + Len(Fields) * SizeOfF32

FieldIndex(f) == CHOOSE j \in DOMAIN Fields : Fields[j] = f

\* byte offset of a field in the packed struct
FieldOffset(f) == SizeOfMagic + (FieldIndex(f) - 1) * SizeOfF32

----------------------------------------------------------------------------
(* f32 values: the IEEE-754 binary32 fields *)

F32(s, e, m) == [sign |-> s, exp |-> e, man |-> m]

F32Zero == F32(0, 0, 0)                 \* 0f32
F32NegInfinity == F32(1, 255, 0)        \* -f32::INFINITY

ManBits == 23
ExpBias == 127
ExpMax == 255

RECURSIVE Pow2(_)
Pow2(n) == IF n = 0 THEN 1 ELSE 2 * Pow2(n - 1)

I32Max == 2147483647
I32Min == -I32Max - 1

\* f32::from_le_bytes, the field read that from_bytes::<MotorPacket> performs
F32FromLeBytes(b) ==
    F32(b[4] \div 128,
        (b[4] % 128) * 2 + (b[3] \div 128),
        (b[3] % 128) * 65536 + b[2] * 256 + b[1])

\* f32::to_le_bytes, the field write that bytes_of performs
F32ToLeBytes(x) ==
    << x.man % 256,
       (x.man \div 256) % 256,
       (x.exp % 2) * 128 + (x.man \div 65536),
       x.sign * 128 + (x.exp \div 2) >>

IsNaN(x) == x.exp = ExpMax /\ x.man # 0
IsInf(x) == x.exp = ExpMax /\ x.man = 0
IsFinite(x) == x.exp < ExpMax

\* floor(a * b / c) for a >= 0 without leaving 32 bits (needs b * c < 2^31)
MulDiv(a, b, c) == (a \div c) * b + ((a % c) * b) \div c

\* the f32 nearest below the magnitude m * 2^(-frac), m < 2^31
RECURSIVE F32Normalize(_, _, _)
F32Normalize(s, m, e) ==
    IF m >= Pow2(ManBits + 1) THEN F32Normalize(s, m \div 2, e + 1)
    ELSE IF m < Pow2(ManBits) THEN F32Normalize(s, m * 2, e - 1)
    ELSE F32(s, e, m - Pow2(ManBits))

\* `as f32` of the f64 whose magnitude is m * 2^(-frac)
AsF32(s, m, frac) ==
    IF m = 0 THEN F32(s, 0, 0)
    ELSE F32Normalize(s, m, ExpBias + ManBits - frac)

\* `as i32` of the f64 of sign s and magnitude m * 2^e: truncates toward zero,
\* saturates at the ends of i32
AsI32(s, m, e) ==
    LET mag == IF e >= 0
               THEN (IF e > 30 \/ m > I32Max \div Pow2(e) THEN I32Max ELSE m * Pow2(e))
               ELSE (IF -e > 30 THEN 0 ELSE m \div Pow2(-e))
    IN  IF s = 0 THEN mag
        ELSE IF m # 0 /\ e >= 0 /\ (e > 30 \/ m > I32Max \div Pow2(e)) THEN I32Min
        ELSE -mag

----------------------------------------------------------------------------
(* Unit conversions, main.rs:18 and main.rs:101-125 *)

\* WHEEL_GEAR_RATIO = 22 / 26
WHEEL_GEAR_NUM == 22
WHEEL_GEAR_DEN == 26

\* RAD_PER_REV = 2 * PI, as the rational 710 / 113 (2 * 355/113)
RAD_PER_REV_NUM == 710
RAD_PER_REV_DEN == 113

SEC_PER_MIN == 60

\* extra binary digits carried by the f64 intermediates
CmdScale == 3
TelemScale == 18

\* the f64 steps shared by both command conversions; the result is the magnitude
\* of rev_per_min scaled by 2^(CmdScale) over the f32 significand
RevPerMin(sig) ==
    LET rev_per_sec == MulDiv(sig * Pow2(CmdScale), RAD_PER_REV_DEN, RAD_PER_REV_NUM)
    IN  rev_per_sec * SEC_PER_MIN

\* value / WHEEL_GEAR_RATIO on a magnitude
DivGearRatio(v) == MulDiv(v, WHEEL_GEAR_DEN, WHEEL_GEAR_NUM)

Significand(x) == x.man + Pow2(ManBits)

\* (f64 magnitude) as i32 for a finite or non-finite f32 input
CastRpm(x, mag) ==
    IF IsNaN(x) THEN 0
    ELSE IF IsInf(x) THEN (IF x.sign = 0 THEN I32Max ELSE I32Min)
    ELSE IF x.exp = 0 THEN 0
    ELSE AsI32(x.sign, mag, x.exp - ExpBias - ManBits - CmdScale)

\* main.rs:104
packet_to_wheel_motor_rpm(packet_value) ==
    CastRpm(packet_value, DivGearRatio(RevPerMin(Significand(packet_value))))

\* main.rs:112
packet_to_intake_motor_rpm(packet_value) ==
    CastRpm(packet_value, RevPerMin(Significand(packet_value)))

Abs(n) == IF n < 0 THEN -n ELSE n
SignBit(n) == IF n < 0 THEN 1 ELSE 0

\* rpm * RAD_PER_REV / SEC_PER_MIN on the magnitude of an RPM reading
RadPerSec(rpm) ==
    MulDiv(Abs(rpm) * Pow2(TelemScale), RAD_PER_REV_NUM, RAD_PER_REV_DEN) \div SEC_PER_MIN

\* main.rs:119
rpm_to_intake_rad_per_sec(rpm) == AsF32(SignBit(rpm), RadPerSec(rpm), TelemScale)

\* main.rs:123
rpm_to_wheel_rad_per_sec(rpm) ==
    AsF32(SignBit(rpm), DivGearRatio(RadPerSec(rpm)), TelemScale)

\* Angle::as_radians of a reading given in milliradians, as a magnitude
AsRadians(mrad) == (Abs(mrad) * Pow2(TelemScale)) \div 1000

\* main.rs:187, |x| (x.as_radians() / WHEEL_GEAR_RATIO) as f32
wheel_position_to_rad(mrad) ==
    AsF32(SignBit(mrad), DivGearRatio(AsRadians(mrad)), TelemScale)

\* main.rs:199, |x| x.as_radians() as f32
intake_position_to_rad(mrad) == AsF32(SignBit(mrad), AsRadians(mrad), TelemScale)

----------------------------------------------------------------------------
(* MotorPacket values and their byte image *)

MotorPacket(magic, ch) ==
    [magic |-> magic,
     front_left |-> ch["front_left"], back_left |-> ch["back_left"],
     back_right |-> ch["back_right"], front_right |-> ch["front_right"],
     intake1 |-> ch["intake1"], intake2 |-> ch["intake2"], intake3 |-> ch["intake3"]]

Field(packet, f) ==
    CASE f = "front_left" -> packet.front_left
      [] f = "back_left" -> packet.back_left
      [] f = "back_right" -> packet.back_right
      [] f = "front_right" -> packet.front_right
      [] f = "intake1" -> packet.intake1
      [] f = "intake2" -> packet.intake2
      [] f = "intake3" -> packet.intake3

\* bytemuck::from_bytes::<MotorPacket>: reads the packed fields in place
from_bytes(b) ==
    MotorPacket(Reverse(Slice(b, 0, SizeOfMagic)),
                [f \in Channels |->
                    F32FromLeBytes(Slice(b, FieldOffset(f), FieldOffset(f) + SizeOfF32))])

\* bytemuck::bytes_of: the packed fields in declaration order
bytes_of(packet) ==
    to_le_bytes(packet.magic)
        \o Flatten([j \in DOMAIN Fields |-> F32ToLeBytes(Field(packet, Fields[j]))])

----------------------------------------------------------------------------
(* get_motor_packet, main.rs:48-81 *)

TIMEOUT == 100       \* main.rs:52, milliseconds
SLEEP_MS == 1        \* main.rs:75

\* how long one sleep(1 ms) is observed to take
SleepDurations == {SLEEP_MS + (MaxJitter \div 2), SLEEP_MS + MaxJitter}

\* main.rs:63-64
MagicAt(buf, idx) ==
    Slice(buf, idx, idx + SizeOfMagic) = to_le_bytes(MOTOR_PACKET_MAGIC)

NoIndex == -1

\* a mutation: the candidates are tested from offset 0 upward, so the lowest
\* match wins
ScanUpFrom(buf, idx) ==
    LET matches == {k \in 0..idx : MagicAt(buf, k)}
    IN  IF matches = {} THEN NoIndex
        ELSE CHOOSE k \in matches : \A j \in matches : k <= j

\* main.rs:62-73, the inner loop started at idx: the offset of the first match
\* met going down, or NoIndex when offset 0 is passed without one (`idx -= 1`
\* on the unsigned 0)
RECURSIVE ScanFrom(_, _)
ScanFrom(buf, idx) ==
    IF MagicAt(buf, idx) THEN idx
    ELSE IF idx = 0 THEN NoIndex
    ELSE ScanFrom(buf, idx - 1)

\* main.rs:60, the guard of the scan
ScanGuard(buf) == Len(buf) > SizeOfMotorPacket

\* main.rs:61, the first candidate offset
ScanStart(buf) == Len(buf) - SizeOfMotorPacket

\* a mutation: drain(..idx), which leaves the extracted packet in the buffer
DrainBeforePacket(s, idx) == Slice(s, idx, Len(s))

\* main.rs:66
EndOfPacket(idx) == idx + SizeOfMotorPacket

\* main.rs:68, persistent_buf.drain(..end_of_packet)
Drain(s, idx) == Slice(s, EndOfPacket(idx), Len(s))

\* a mutation: the budget compared at half its length
WithinHalfBudget(t) == 2 * t < TIMEOUT

\* main.rs:55, the loop condition
WithinBudget(t) == t < TIMEOUT

Result(tag, val) == [tag |-> tag, val |-> val]
NoResult == Result("None", <<>>)
TimedOut == Result("TimedOut", <<>>)    \* io::ErrorKind::TimedOut
ReadError == Result("ReadError", <<>>)  \* the error of read_to_end
Ok(packet) == Result("Ok", packet)

NoScan == [buf |-> <<>>, src |-> <<>>, idx |-> NoIndex]

----------------------------------------------------------------------------
(* Motors, main.rs:131-149 *)

\* the order in which main.rs:165-179 commands the motors
Motors == <<"front_lefts_0", "front_lefts_1", "front_rights_0", "front_rights_1",
            "back_lefts_0", "back_lefts_1", "back_rights_0", "back_rights_1",
            "intake1", "intake2", "intake3">>

MotorSet == Range(Motors)

\* the packet field that drives a motor
MotorField(m) ==
    CASE m \in {"front_lefts_0", "front_lefts_1"} -> "front_left"
      [] m \in {"front_rights_0", "front_rights_1"} -> "front_right"
      [] m \in {"back_lefts_0", "back_lefts_1"} -> "back_left"
      [] m \in {"back_rights_0", "back_rights_1"} -> "back_right"
      [] OTHER -> m

IsWheel(f) == f \in {"front_left", "front_right", "back_left", "back_right"}

\* the motor whose sensors feed a telemetry channel: index [0] of a pair
SensorMotor(f) ==
    CASE f = "front_left" -> "front_lefts_0"
      [] f = "front_right" -> "front_rights_0"
      [] f = "back_left" -> "back_lefts_0"
      [] f = "back_right" -> "back_rights_0"
      [] OTHER -> f

\* the argument of set_velocity for motor m, main.rs:166-179
CommandRpm(packet, m) ==
    IF IsWheel(MotorField(m))
    THEN packet_to_wheel_motor_rpm(Field(packet, MotorField(m)))
    ELSE packet_to_intake_motor_rpm(Field(packet, MotorField(m)))

\* one set_velocity call and whether the motor accepted it
Call(packet, m) ==
    [motor |-> m, rpm |-> CommandRpm(packet, m), ok |-> m \notin disconnected]

\* a mutation: the first failed set_velocity ends the dispatch, as `?` would
RECURSIVE CallsUntilFailure(_, _)
CallsUntilFailure(packet, j) ==
    IF j > Len(Motors) THEN <<>>
    ELSE IF Motors[j] \in disconnected THEN <<Call(packet, Motors[j])>>
    ELSE <<Call(packet, Motors[j])>> \o CallsUntilFailure(packet, j + 1)

DispatchUntilFailure(packet) == CallsUntilFailure(packet, 1)

\* main.rs:165-179: every result is dropped (`let _ =`), so all calls are made
DispatchCalls(packet) == [j \in DOMAIN Motors |-> Call(packet, Motors[j])]

\* a mutation: a failed attempt commands the zeroed packet
CommandsOrZeroed(result) ==
    IF result.tag = "Ok" THEN DispatchCalls(result.val)
    ELSE DispatchCalls(MotorPacket(Repeat(<<0>>, SizeOfMagic), [f \in Channels |-> F32Zero]))

\* main.rs:163, `if let Ok(motor_packet) = motor_packet`
CommandsFor(result) ==
    IF result.tag = "Ok" THEN DispatchCalls(result.val) ELSE <<>>

----------------------------------------------------------------------------
(* Telemetry, main.rs:183-241 *)

\* the sentinels of map_or
PositionSentinel == F32Zero             \* main.rs:187, 0f32
VelocitySentinel == F32NegInfinity      \* main.rs:218, -f32::INFINITY

SensorFails(f) == SensorMotor(f) \in disconnected

PositionValue(f) ==
    IF SensorFails(f) THEN PositionSentinel
    ELSE IF IsWheel(f) THEN wheel_position_to_rad(motor_position[f])
    ELSE intake_position_to_rad(motor_position[f])

\* a mutation: one failed sensor read blanks the whole velocity packet
VelocityAllOrNothing(f) ==
    IF \E g \in Channels : SensorFails(g) THEN VelocitySentinel
    ELSE IF IsWheel(f) THEN rpm_to_wheel_rad_per_sec(motor_velocity[f])
    ELSE rpm_to_intake_rad_per_sec(motor_velocity[f])

VelocityValue(f) ==
    IF SensorFails(f) THEN VelocitySentinel
    ELSE IF IsWheel(f) THEN rpm_to_wheel_rad_per_sec(motor_velocity[f])
    ELSE rpm_to_intake_rad_per_sec(motor_velocity[f])

\* main.rs:183-206
BuildPositionPacket ==
    MotorPacket(ENCODER_POSITION_MAGIC, [f \in Channels |-> PositionValue(f)])

\* a mutation: the velocity packet is built with the magic of the position packet
VelocityPacketTaggedPosition ==
    MotorPacket(ENCODER_POSITION_MAGIC, [f \in Channels |-> VelocityValue(f)])

\* main.rs:214-237
BuildVelocityPacket ==
    MotorPacket(ENCODER_VELOCITY_MAGIC, [f \in Channels |-> VelocityValue(f)])

NoPacket == <<>>

\* one write_all on the transmit port
Write(kind, packet, ok) == [kind |-> kind, bytes |-> bytes_of(packet), ok |-> ok]

----------------------------------------------------------------------------
(* The environment: what the host sends and what the hardware reports *)

\* a command packet on the wire: the magic, then seven copies of one f32
WirePacket(f32_bytes) == to_le_bytes(MOTOR_PACKET_MAGIC) \o Repeat(f32_bytes, Len(Fields))

P1 == WirePacket(<<0, 0, 32, 65>>)      \* 10.0 rad/s on every channel
P2 == WirePacket(<<0, 0, 160, 192>>)    \* -5.0 rad/s on every channel

MagicPrefixLen == 5
MagicCut == 4
PayloadCut == 25

\* noise segments: silence, runs of zero bytes, the start of a magic, and a
\* whole magic with too little after it to be a packet
NoiseSegments ==
    { <<>>,
      <<0>>,
      Repeat(<<0>>, MaxNoise),
      Slice(to_le_bytes(MOTOR_PACKET_MAGIC), 0, MagicPrefixLen),
      to_le_bytes(MOTOR_PACKET_MAGIC) \o <<0, 0, 0>> }

\* where the bytes of a packet at stream offset p may be cut into bursts: before
\* it, inside its magic, after its magic, inside its payload, at its end and one
\* byte past its end
PacketCuts(p) ==
    {p, p + MagicCut, p + SizeOfMagic, p + PayloadCut, p + SizeOfMotorPacket,
     p + SizeOfMotorPacket + 1}

\* the burst ends of a stream of length len holding packets at offsets p and q
BurstEnds(len, p, q) == {c \in PacketCuts(p) \cup PacketCuts(q) \cup {len} : c \in 1..len}

\* the numbers of bytes one read can return: nothing, or everything up to the
\* end of a burst
ReadSizes == {0} \cup {c - rx_pos : c \in {b \in rx_bursts : b > rx_pos}}

\* what a failing read had taken from the transport: nothing, or the next burst
LostSizes == {n \in ReadSizes : \A k \in ReadSizes : k = 0 \/ n <= k}

PositionStep == 500      \* milliradians
VelocityStep == 50       \* RPM

NoReadings == [f \in Channels |-> 0]

\* readings that differ from channel to channel
SpreadReadings(unit) == [f \in Channels |-> unit * (FieldIndex(f) - 4)]

HwVars == <<disconnected, motor_position, motor_velocity>>

InitLoop ==
    /\ rx_pos = 0
    /\ persistent_motor_buf = <<>>
    /\ buf_src = <<>>
    /\ pc = "loop"
    /\ elapsed = 0
    /\ carried = 0
    /\ i = 0
    /\ cycle = 0
    /\ motor_packet = NoResult
    /\ scan_pre = NoScan
    /\ returned = <<>>
    /\ rx_faults = 0
    /\ calls = <<>>
    /\ position_packet = NoPacket
    /\ velocity_packet = NoPacket
    /\ tx_port = <<>>

\* the host sends noise1 ++ P1 ++ noise2 ++ P2 to a robot whose motors all answer
Init ==
    /\ InitLoop
    /\ \E n1 \in NoiseSegments, n2 \in NoiseSegments :
         /\ rx_wire = n1 \o P1 \o n2 \o P2
         /\ layout = [p1 |-> Len(n1), p2 |-> Len(n1) + Len(P1) + Len(n2)]
         /\ rx_bursts = BurstEnds(Len(n1 \o P1 \o n2 \o P2), Len(n1),
                                  Len(n1) + Len(P1) + Len(n2))
    /\ disconnected = {}
    /\ motor_position = NoReadings
    /\ motor_velocity = NoReadings

\* what the sensors read: a robot at rest at its start position, and one moving
SensorReadings ==
    { [position |-> NoReadings, velocity |-> NoReadings],
      [position |-> SpreadReadings(PositionStep), velocity |-> SpreadReadings(VelocityStep)] }

\* the second motor of each wheel pair, which feeds no telemetry channel
SecondMotors == {"front_lefts_1", "front_rights_1", "back_lefts_1", "back_rights_1"}

\* the sets of unplugged motors: any set of the seven sensing motors, with the
\* second motors all plugged or all unplugged
FaultSets ==
    {s \cup t : s \in SUBSET {SensorMotor(f) : f \in Channels}, t \in {{}, SecondMotors}}

\* the host sends one packet and a further byte, or a frame of zero bytes, each
\* in one burst
InitFaults ==
    /\ InitLoop
    /\ rx_wire \in {P1 \o <<0>>, Repeat(<<0>>, SizeOfMotorPacket + 1)}
    /\ rx_bursts = {Len(rx_wire)}
    /\ layout = [p1 |-> 0, p2 |-> Len(rx_wire)]
    /\ disconnected \in FaultSets
    /\ \E r \in SensorReadings :
         /\ motor_position = r.position
         /\ motor_velocity = r.velocity

----------------------------------------------------------------------------
(* The control loop, main.rs:160-244 *)

\* a mutation: the rotation has two slots, so the velocity slot never comes
RotateOverTwo(n) == (n + 1) % 2

\* main.rs:161, i = (i + 1) % 3
Rotate(n) == (n + 1) % 3

\* main.rs:160-162: the rotation advances and get_motor_packet starts
LoopTop ==
    /\ pc = "loop"
    /\ cycle < MaxCycles
    /\ i' = Rotate(i)
    /\ cycle' = cycle + 1
    /\ elapsed' = 0
    /\ carried' = Len(persistent_motor_buf)
    /\ motor_packet' = NoResult
    /\ scan_pre' = NoScan
    /\ calls' = <<>>
    /\ position_packet' = NoPacket
    /\ velocity_packet' = NoPacket
    /\ tx_port' = <<>>
    /\ pc' = "gmp_while"
    /\ UNCHANGED <<rx_wire, rx_bursts, rx_pos, layout, persistent_motor_buf, buf_src, returned,
                   rx_faults>>
    /\ UNCHANGED HwVars

\* main.rs:55-58: within the budget, read what has arrived and append it
GmpRead ==
    /\ pc = "gmp_while"
    /\ WithinBudget(elapsed)
    /\ \E n \in ReadSizes :
         LET sub_buf == SubSeq(rx_wire, 1, n)
         IN  /\ persistent_motor_buf' = persistent_motor_buf \o sub_buf
             /\ buf_src' = buf_src \o [j \in 1..n |-> rx_pos + j]
             /\ rx_pos' = rx_pos + n
             /\ rx_wire' = SubSeq(rx_wire, n + 1, Len(rx_wire))
    /\ pc' = "gmp_scan"
    /\ UNCHANGED <<rx_bursts, layout, carried, elapsed, i, cycle, motor_packet, scan_pre, returned, rx_faults,
                   calls, position_packet, velocity_packet, tx_port>>
    /\ UNCHANGED HwVars

\* a mutation: the bytes the failing read had taken are appended to the
\* carry-over buffer before the error is returned
GmpReadErrorKeepsBytes ==
    /\ pc = "gmp_while"
    /\ WithinBudget(elapsed)
    /\ rx_faults < MaxRxFaults
    /\ \E n \in LostSizes :
         /\ persistent_motor_buf' = persistent_motor_buf \o SubSeq(rx_wire, 1, n)
         /\ buf_src' = buf_src \o [j \in 1..n |-> rx_pos + j]
         /\ rx_pos' = rx_pos + n
         /\ rx_wire' = SubSeq(rx_wire, n + 1, Len(rx_wire))
    /\ rx_faults' = rx_faults + 1
    /\ motor_packet' = ReadError
    /\ pc' = "dispatch"
    /\ UNCHANGED <<rx_bursts, layout, carried, elapsed, i, cycle, scan_pre,
                   returned, calls, position_packet, velocity_packet, tx_port>>
    /\ UNCHANGED HwVars

\* main.rs:57: read_to_end fails and `?` returns its error; what it had read
\* into sub_buf is dropped with sub_buf
GmpReadError ==
    /\ pc = "gmp_while"
    /\ WithinBudget(elapsed)
    /\ rx_faults < MaxRxFaults
    /\ \E n \in LostSizes :
         /\ rx_pos' = rx_pos + n
         /\ rx_wire' = SubSeq(rx_wire, n + 1, Len(rx_wire))
    /\ rx_faults' = rx_faults + 1
    /\ motor_packet' = ReadError
    /\ pc' = "dispatch"
    /\ UNCHANGED <<rx_bursts, layout, carried, persistent_motor_buf, buf_src, elapsed, i, cycle, scan_pre,
                   returned, calls, position_packet, velocity_packet, tx_port>>
    /\ UNCHANGED HwVars

\* main.rs:55 and 78-80: the budget is spent
GmpTimeout ==
    /\ pc = "gmp_while"
    /\ ~WithinBudget(elapsed)
    /\ persistent_motor_buf' = <<>>
    /\ buf_src' = <<>>
    /\ motor_packet' = TimedOut
    /\ pc' = "dispatch"
    /\ UNCHANGED <<rx_wire, rx_bursts, rx_pos, layout, carried, elapsed, i, cycle, scan_pre, returned,
                   rx_faults, calls, position_packet, velocity_packet, tx_port>>
    /\ UNCHANGED HwVars

\* main.rs:60-70: the scan finds the magic and the packet is returned
GmpScanReturn ==
    /\ pc = "gmp_scan"
    /\ ScanGuard(persistent_motor_buf)
    /\ LET idx == ScanFrom(persistent_motor_buf, ScanStart(persistent_motor_buf))
       IN  /\ idx # NoIndex
           /\ motor_packet' =
                Ok(from_bytes(Slice(persistent_motor_buf, idx, EndOfPacket(idx))))
           /\ scan_pre' = [buf |-> persistent_motor_buf, src |-> buf_src, idx |-> idx]
           /\ returned' = Append(returned, Slice(buf_src, idx, EndOfPacket(idx)))
           /\ persistent_motor_buf' = Drain(persistent_motor_buf, idx)
           /\ buf_src' = Drain(buf_src, idx)
    /\ pc' = "dispatch"
    /\ UNCHANGED <<rx_wire, rx_bursts, rx_pos, layout, carried, elapsed, i, cycle, rx_faults, calls,
                   position_packet, velocity_packet, tx_port>>
    /\ UNCHANGED HwVars

\* main.rs:62-73: no candidate offset matches.  `idx -= 1` at 0 panics where
\* overflow is checked; where it wraps, the slice at main.rs:63 starts past its
\* end and panics.
GmpScanPanic ==
    /\ pc = "gmp_scan"
    /\ ScanGuard(persistent_motor_buf)
    /\ ScanFrom(persistent_motor_buf, ScanStart(persistent_motor_buf)) = NoIndex
    /\ \E overflow_checks \in BOOLEAN :
         pc' = IF overflow_checks THEN "panic_subtract_overflow" ELSE "panic_slice_index"
    /\ UNCHANGED <<rx_wire, rx_bursts, rx_pos, layout, carried, persistent_motor_buf, buf_src, elapsed, i,
                   cycle, motor_packet, scan_pre, returned, rx_faults, calls,
                   position_packet, velocity_packet, tx_port>>
    /\ UNCHANGED HwVars

\* main.rs:60 and 75: too few bytes to scan; sleep and test the budget again
GmpSleep ==
    /\ pc = "gmp_scan"
    /\ ~ScanGuard(persistent_motor_buf)
    /\ \E d \in SleepDurations : elapsed' = elapsed + d
    /\ pc' = "gmp_while"
    /\ UNCHANGED <<rx_wire, rx_bursts, rx_pos, layout, carried, persistent_motor_buf, buf_src, i, cycle,
                   motor_packet, scan_pre, returned, rx_faults, calls, position_packet,
                   velocity_packet, tx_port>>
    /\ UNCHANGED HwVars

\* a mutation: a failed attempt is retried within the cycle instead of going on
\* to the telemetry
DispatchOrRetry ==
    /\ pc = "dispatch"
    /\ calls' = CommandsFor(motor_packet)
    /\ elapsed' = 0
    /\ scan_pre' = NoScan
    /\ IF motor_packet.tag = "Ok"
       THEN pc' = "position" /\ motor_packet' = motor_packet
       ELSE pc' = "gmp_while" /\ motor_packet' = NoResult
    /\ UNCHANGED <<rx_wire, rx_bursts, rx_pos, layout, carried, persistent_motor_buf, buf_src, i,
                   cycle, returned, rx_faults, position_packet, velocity_packet, tx_port>>
    /\ UNCHANGED HwVars

\* main.rs:163-180; the locals of get_motor_packet are gone
Dispatch ==
    /\ pc = "dispatch"
    /\ calls' = CommandsFor(motor_packet)
    /\ elapsed' = 0
    /\ scan_pre' = NoScan
    /\ pc' = "position"
    /\ UNCHANGED <<rx_wire, rx_bursts, rx_pos, layout, carried, persistent_motor_buf, buf_src, i,
                   cycle, motor_packet, returned, rx_faults, position_packet,
                   velocity_packet, tx_port>>
    /\ UNCHANGED HwVars

\* main.rs:183-212
TelemetryPosition ==
    /\ pc = "position"
    /\ position_packet' = BuildPositionPacket
    /\ IF i = 1
       THEN \E ok \in BOOLEAN :
              tx_port' = Append(tx_port, Write("position", BuildPositionPacket, ok))
       ELSE tx_port' = tx_port
    /\ pc' = "velocity"
    /\ UNCHANGED <<rx_wire, rx_bursts, rx_pos, layout, carried, persistent_motor_buf, buf_src, elapsed, i,
                   cycle, motor_packet, scan_pre, returned, rx_faults, calls,
                   velocity_packet>>
    /\ UNCHANGED HwVars

\* main.rs:214-244
TelemetryVelocity ==
    /\ pc = "velocity"
    /\ velocity_packet' = BuildVelocityPacket
    /\ IF i = 2
       THEN \E ok \in BOOLEAN :
              tx_port' = Append(tx_port, Write("velocity", BuildVelocityPacket, ok))
       ELSE tx_port' = tx_port
    /\ pc' = "loop"
    /\ UNCHANGED <<rx_wire, rx_bursts, rx_pos, layout, carried, persistent_motor_buf, buf_src, elapsed, i,
                   cycle, motor_packet, scan_pre, returned, rx_faults, calls,
                   position_packet>>
    /\ UNCHANGED HwVars

Next ==
    \/ LoopTop
    \/ GmpRead
    \/ GmpReadError
    \/ GmpTimeout
    \/ GmpScanReturn
    \/ GmpScanPanic
    \/ GmpSleep
    \/ Dispatch
    \/ TelemetryPosition
    \/ TelemetryVelocity

Spec == Init /\ [][Next]_vars

SpecFaults == InitFaults /\ [][Next]_vars

----------------------------------------------------------------------------
(* Properties of the frame synchronizer *)

\* the stream positions of the packet that starts at stream offset p
PacketSrc(p) == [j \in 1..SizeOfMotorPacket |-> p + j]
P1Src == PacketSrc(layout.p1)
P2Src == PacketSrc(layout.p2)

ReturnedAt(k, src) == k \in DOMAIN returned /\ returned[k] = src
Panicked == pc \in {"panic_subtract_overflow", "panic_slice_index"}
JustReturned == pc = "dispatch" /\ motor_packet.tag = "Ok"
LastByte(src) == src[Len(src)]

\* C1 as claimed: the successful returns include P1 and then P2 and neither
\* packet is skipped, so once P2 has been returned P1 was returned before it.
C1_NeitherPacketSkipped ==
    \A k \in DOMAIN returned :
        returned[k] = P2Src => \E j \in 1..(k - 1) : returned[j] = P1Src

\* C1 as amended: the returned packets are taken from the stream in strictly
\* increasing order without overlap, so P2 is never returned before P1 and
\* neither is returned twice; and a scan that examines a buffer holding both P1
\* and P2 returns P2, after which P1 is not returned any more.
C1_InOrderLatestWins ==
    /\ \A j, k \in DOMAIN returned : j < k => LastByte(returned[j]) < returned[k][1]
    /\ JustReturned /\ Range(P1Src) \cup Range(P2Src) \subseteq Range(scan_pre.src)
         => returned[Len(returned)] = P2Src

\* C1 witness: P1 and then P2 have both been returned
C1_BothReturned == returned = <<P1Src, P2Src>>

\* C2: a TimedOut return comes no earlier than TIMEOUT after the attempt began
\* and leaves the carry-over buffer empty, whatever part of a packet it held.
C2_TimeoutBoundary ==
    motor_packet = TimedOut =>
        /\ persistent_motor_buf = <<>>
        /\ pc = "dispatch" => elapsed >= TIMEOUT

\* C2 witness: the first attempt times out after the magic and part of the
\* payload of P1 had been read into the buffer
C2_TimedOutMidPacket ==
    /\ pc = "dispatch"
    /\ motor_packet = TimedOut
    /\ cycle = 1
    /\ rx_faults = 0
    /\ rx_pos = layout.p1 + PayloadCut

\* C3: after an extraction at buffer offset k the buffer is exactly what
\* followed offset k + 36, in order; the buffer never holds a byte at or before
\* the end of a returned packet; and no stream byte is in two returned packets.
C3_BufferNonReuse ==
    /\ JustReturned =>
         /\ persistent_motor_buf =
              Slice(scan_pre.buf, scan_pre.idx + SizeOfMotorPacket, Len(scan_pre.buf))
         /\ buf_src = Slice(scan_pre.src, scan_pre.idx + SizeOfMotorPacket, Len(scan_pre.src))
    /\ \A k \in DOMAIN returned : \A j \in DOMAIN buf_src :
         buf_src[j] > LastByte(returned[k])
    /\ \A j, k \in DOMAIN returned :
         j # k => Range(returned[j]) \cap Range(returned[k]) = {}

\* C3 witness: a second packet is extracted at an offset k > 0, in front of it
\* the one byte that the first extraction had left in the buffer
C3_SecondExtraction ==
    /\ JustReturned
    /\ Len(returned) = 2
    /\ scan_pre.idx > 0
    /\ scan_pre.src[1] = LastByte(returned[1]) + 1

\* C4 as claimed: whatever bytes arrive, the scan stops after offset 0 and the
\* attempt ends in a packet or in TimedOut; it never aborts the program.
C4_AttemptNeverAborts == ~Panicked

\* C9 as claimed: a packet whose first bytes were carried over from the previous
\* call is returned once its remaining bytes have arrived within the budget; the
\* budget never runs out on a buffer that holds the whole packet.
C9_CarriedPacketReturned ==
    ~ /\ pc = "gmp_while"
      /\ ~WithinBudget(elapsed)
      /\ carried \in 1..(SizeOfMotorPacket - 1)
      /\ Len(buf_src) >= SizeOfMotorPacket
      /\ Slice(buf_src, 0, SizeOfMotorPacket) \in {P1Src, P2Src}

----------------------------------------------------------------------------
(* Properties of the control loop *)

AfterDispatch == pc \in {"position", "velocity", "loop"} /\ cycle > 0

\* a read or a write on the transport has failed in this cycle
TransportFault ==
    \/ motor_packet = ReadError
    \/ \E j \in DOMAIN tx_port : ~tx_port[j].ok

\* C5 as claimed: once a transport read or write has failed the control loop
\* stops; it takes no further step and starts no other cycle.
C5_TransportFaultStopsLoop == [][TransportFault => pc' = pc]_vars

\* C6: a cycle commands the motors if and only if its attempt returned a packet;
\* a cycle whose attempt timed out makes no set_velocity call, its next steps are
\* the two telemetry builds, and the step after those starts the next cycle.
C6_TimeoutAppliesNoCommand ==
    /\ [](AfterDispatch => (calls # <<>> <=> motor_packet.tag = "Ok"))
    /\ [](motor_packet = TimedOut =>
            /\ calls = <<>>
            /\ pc \in {"velocity", "loop"} => position_packet # NoPacket
            /\ pc = "loop" => velocity_packet # NoPacket)
    /\ [][motor_packet = TimedOut =>
            /\ pc = "dispatch" => pc' = "position" /\ calls' = <<>>
            /\ pc = "position" => pc' = "velocity"
            /\ pc = "velocity" => pc' = "loop"
            /\ pc = "loop" => pc' = "gmp_while" /\ cycle' = cycle + 1]_vars

\* C6 witness: a cycle that timed out has written telemetry and is about to
\* start the next cycle
C6_TimedOutCycleSentTelemetry ==
    /\ motor_packet = TimedOut
    /\ pc = "loop"
    /\ tx_port # <<>>

----------------------------------------------------------------------------
(* Properties of the unit and command mapper *)

WheelChannels == {f \in Channels : IsWheel(f)}
IntakeChannels == Channels \ WheelChannels

\* the channels whose sensor read fails
F == {f \in Channels : SensorMotor(f) \in disconnected}

\* C7 as claimed: a built telemetry packet holds the sentinel in exactly the
\* channels of F and the converted reading in every other channel.
C7_SentinelExactlyInF ==
    /\ position_packet # NoPacket =>
         \A f \in Channels : Field(position_packet, f) = F32Zero <=> f \in F
    /\ velocity_packet # NoPacket =>
         \A f \in Channels : Field(velocity_packet, f) = F32NegInfinity <=> f \in F

\* C7 as amended: every channel of F holds the sentinel of the packet type (0 in
\* a position packet, negative infinity in a velocity packet) and every other
\* channel holds its converted reading; in a velocity packet the sentinel is in
\* exactly the channels of F; both packets are built in every cycle that reaches
\* the telemetry step.  (A healthy channel at position 0 also holds 0.)
C7_SentinelIsolation ==
    /\ position_packet # NoPacket =>
         /\ \A f \in F : Field(position_packet, f) = F32Zero
         /\ \A f \in WheelChannels \ F :
              Field(position_packet, f) = wheel_position_to_rad(motor_position[f])
         /\ \A f \in IntakeChannels \ F :
              Field(position_packet, f) = intake_position_to_rad(motor_position[f])
    /\ velocity_packet # NoPacket =>
         /\ \A f \in Channels : Field(velocity_packet, f) = F32NegInfinity <=> f \in F
         /\ \A f \in WheelChannels \ F :
              Field(velocity_packet, f) = rpm_to_wheel_rad_per_sec(motor_velocity[f])
         /\ \A f \in IntakeChannels \ F :
              Field(velocity_packet, f) = rpm_to_intake_rad_per_sec(motor_velocity[f])
    /\ pc \in {"velocity", "loop"} /\ cycle > 0 => position_packet # NoPacket
    /\ pc = "loop" /\ cycle > 0 => velocity_packet # NoPacket

\* C7 witness: both packets are built while one wheel and one intake sensor fail
\* and the other channels read non-zero values
C7_TwoChannelsFail ==
    /\ velocity_packet # NoPacket
    /\ position_packet # NoPacket
    /\ F = {"front_left", "intake2"}
    /\ motor_velocity["back_left"] # 0
    /\ motor_position["intake3"] # 0

\* the command conversion of a channel applied to a wire value
WireToCommand(f, x) ==
    IF IsWheel(f) THEN packet_to_wheel_motor_rpm(x) ELSE packet_to_intake_motor_rpm(x)

\* C8 as claimed: converting the velocity a channel reports back with the
\* command conversion of that channel gives the RPM that was read, within 1 RPM.
C8_ConversionRoundTrip ==
    velocity_packet # NoPacket =>
        \A f \in Channels \ F :
            Abs(WireToCommand(f, Field(velocity_packet, f)) - motor_velocity[f]) <= 1

\* C10: a cycle that decoded a packet attempts set_velocity on every motor, in
\* the order of the source, whichever of the calls fail, and goes on to build
\* both telemetry packets.
C10_EveryMotorCommanded ==
    motor_packet.tag = "Ok" =>
        /\ ~Panicked
        /\ AfterDispatch =>
             /\ [j \in DOMAIN calls |-> calls[j].motor] = Motors
             /\ \A j \in DOMAIN calls : calls[j].ok <=> calls[j].motor \notin disconnected
        /\ pc \in {"velocity", "loop"} => position_packet # NoPacket
        /\ pc = "loop" => velocity_packet # NoPacket

\* C10 witness: the first set_velocity call of the cycle failed, the last one
\* succeeded, and the cycle has built its telemetry
C10_FirstCallFailed ==
    /\ pc = "loop"
    /\ motor_packet.tag = "Ok"
    /\ Len(calls) = Len(Motors)
    /\ ~calls[1].ok
    /\ calls[Len(Motors)].ok
    /\ velocity_packet # NoPacket

----------------------------------------------------------------------------
(* Properties of the returned packets and of the scan *)

\* the bytes a returned packet was decoded from, while the scan is remembered
DecodedBytes == Slice(scan_pre.buf, scan_pre.idx, EndOfPacket(scan_pre.idx))

\* C11 as claimed: every returned packet is 36 consecutive bytes of the received
\* stream in arrival order, it begins with the little-endian bytes of
\* MOTOR_PACKET_MAGIC, and it is never decoded from fewer than 36 bytes nor from
\* bytes that carry another magic.
C11_PacketValidity ==
    /\ \A k \in DOMAIN returned : returned[k] = PacketSrc(returned[k][1] - 1)
    /\ JustReturned =>
         /\ EndOfPacket(scan_pre.idx) <= Len(scan_pre.buf)
         /\ Len(DecodedBytes) = SizeOfMotorPacket
         /\ motor_packet.val = from_bytes(DecodedBytes)
         /\ Slice(DecodedBytes, 0, SizeOfMagic) = to_le_bytes(MOTOR_PACKET_MAGIC)
         /\ motor_packet.val.magic = MOTOR_PACKET_MAGIC
         /\ motor_packet.val.magic \notin {ENCODER_POSITION_MAGIC, ENCODER_VELOCITY_MAGIC}

\* C11 without transport faults: the same statement for the runs in which no
\* read has failed
C11_ValidWhileTransportHealthy == rx_faults = 0 => C11_PacketValidity

\* the candidate offsets of a buffer, main.rs:61-62: those at which 36 bytes fit
CandidateOffsets(buf) == 0..(Len(buf) - SizeOfMotorPacket)

\* the candidate offsets at which the magic matches
Matches(buf) == {k \in CandidateOffsets(buf) : MagicAt(buf, k)}

\* C12 as claimed: an iteration whose buffer, after the read was appended, holds
\* at least 36 bytes scans the candidate offsets in that iteration, so when one
\* of them holds the magic (as when the buffer is exactly one valid packet) the
\* iteration returns a packet instead of sleeping.
C12_ScanThreshold ==
    [][pc = "gmp_scan" /\ Matches(persistent_motor_buf) # {}
          => pc' = "dispatch" /\ motor_packet'.tag = "Ok"]_vars

\* the highest element of a non-empty set of offsets
Highest(S) == CHOOSE k \in S : \A j \in S : j <= k

\* C13: when the buffer holds the magic at several candidate offsets, the scan of
\* that iteration returns the packet at the highest of them; the buffer keeps no
\* byte up to the end of that packet, and no later call returns a byte that lies
\* at or before the end of a packet returned earlier.
C13_MostRecentMatchWins ==
    /\ pc = "gmp_scan" /\ Cardinality(Matches(persistent_motor_buf)) >= 2 =>
         /\ ScanGuard(persistent_motor_buf)
         /\ ScanFrom(persistent_motor_buf, ScanStart(persistent_motor_buf))
              = Highest(Matches(persistent_motor_buf))
    /\ JustReturned /\ Cardinality(Matches(scan_pre.buf)) >= 2 =>
         /\ scan_pre.idx = Highest(Matches(scan_pre.buf))
         /\ returned[Len(returned)] = Slice(scan_pre.src, scan_pre.idx, EndOfPacket(scan_pre.idx))
         /\ Range(buf_src) \cap Range(Slice(scan_pre.src, 0, EndOfPacket(scan_pre.idx))) = {}
    /\ \A j, k \in DOMAIN returned :
         j < k => \A b \in Range(returned[k]) : b > LastByte(returned[j])

\* C13 witness: a scan found the magic of P1 and of P2 at candidate offsets of
\* one buffer and returned P2, dropping the complete P1 in front of it
C13_EarlierPacketDropped ==
    /\ JustReturned
    /\ Cardinality(Matches(scan_pre.buf)) >= 2
    /\ Range(P1Src) \subseteq Range(Slice(scan_pre.src, 0, scan_pre.idx))
    /\ returned = <<P2Src>>

----------------------------------------------------------------------------
(* Properties of the cycle *)

InAttempt == pc \in {"gmp_while", "gmp_scan"}

\* C14: a cycle is one get_motor_packet attempt, then the dispatch of its result,
\* then the position build and send, then the velocity build and send; each step
\* finds the earlier steps of its cycle done and the later ones not begun, the
\* attempt's result is set once per cycle, and a new cycle starts only after the
\* velocity step of the one before.
C14_StrictCycleSequencing ==
    /\ [](InAttempt \/ pc = "dispatch" =>
            /\ calls = <<>>
            /\ position_packet = NoPacket
            /\ velocity_packet = NoPacket
            /\ tx_port = <<>>)
    /\ [](InAttempt => motor_packet = NoResult)
    /\ [](pc = "dispatch" => motor_packet # NoResult)
    /\ [](pc = "position" =>
            /\ motor_packet # NoResult
            /\ calls = CommandsFor(motor_packet)
            /\ position_packet = NoPacket
            /\ velocity_packet = NoPacket
            /\ tx_port = <<>>)
    /\ [](pc = "velocity" =>
            /\ calls = CommandsFor(motor_packet)
            /\ position_packet # NoPacket
            /\ velocity_packet = NoPacket)
    /\ [](pc = "loop" /\ cycle > 0 =>
            /\ calls = CommandsFor(motor_packet)
            /\ position_packet # NoPacket
            /\ velocity_packet # NoPacket)
    /\ [][/\ pc = "dispatch" => pc' = "position"
          /\ pc = "position" => pc' = "velocity"
          /\ pc = "velocity" => pc' = "loop"
          /\ pc = "loop" => pc' = "gmp_while" /\ cycle' = cycle + 1
          /\ pc # "loop" => cycle' = cycle
          /\ pc' = "dispatch" => InAttempt
          /\ motor_packet # NoResult /\ motor_packet' # motor_packet => pc = "loop"]_vars

\* C14 witness: the second cycle has decoded a packet, dispatched it, written a
\* velocity packet and is complete
C14_SecondCycleComplete ==
    /\ pc = "loop"
    /\ cycle = 2
    /\ motor_packet.tag = "Ok"
    /\ calls # <<>>
    /\ tx_port # <<>>

\* the kinds of the telemetry writes attempted so far in this cycle
WriteKinds == [j \in DOMAIN tx_port |-> tx_port[j].kind]

\* what cycle n attempts to write, counting cycles from 1
Scheduled(n) ==
    CASE n % 3 = 1 -> <<"position">>
      [] n % 3 = 2 -> <<"velocity">>
      [] OTHER -> <<>>

\* C15: cycle n attempts a position write iff n mod 3 = 1, a velocity write iff
\* n mod 3 = 2 and no write when n mod 3 = 0; no cycle attempts both; the rotation
\* counter follows the cycle count whatever the attempt returned and whether or
\* not a write failed.
C15_RoundRobinTelemetry ==
    /\ i = cycle % 3
    /\ pc = "velocity" => WriteKinds = (IF cycle % 3 = 1 THEN <<"position">> ELSE <<>>)
    /\ pc = "loop" /\ cycle > 0 => WriteKinds = Scheduled(cycle)
    /\ Len(tx_port) <= 1

\* C15 witness: the third cycle decoded a packet and ends without any telemetry
\* write, after two cycles that decoded nothing
C15_ThirdCycleWritesNothing ==
    /\ pc = "loop"
    /\ cycle = 3
    /\ motor_packet.tag = "Ok"
    /\ Len(returned) = 1
    /\ tx_port = <<>>

----------------------------------------------------------------------------
(* Properties of the telemetry writes *)

\* the magic field of a packet on the wire
WireMagic(bytes) == Slice(bytes, 0, SizeOfMagic)

\* C16: every packet handed to the transmit port is 36 bytes long; it begins with
\* ENCODER_POSITION_MAGIC exactly when it was sent by send_position_packet, and
\* then its channels are the position values; it begins with
\* ENCODER_VELOCITY_MAGIC exactly when it was sent by send_velocity_packet, and
\* then its channels are the velocity values; the three magics are pairwise
\* distinct and no outgoing packet begins with MOTOR_PACKET_MAGIC.
C16_TelemetryTypeTagging ==
    /\ MOTOR_PACKET_MAGIC # ENCODER_POSITION_MAGIC
    /\ MOTOR_PACKET_MAGIC # ENCODER_VELOCITY_MAGIC
    /\ ENCODER_POSITION_MAGIC # ENCODER_VELOCITY_MAGIC
    /\ \A j \in DOMAIN tx_port :
         LET w == tx_port[j]
         IN  /\ Len(w.bytes) = SizeOfMotorPacket
             /\ WireMagic(w.bytes) # to_le_bytes(MOTOR_PACKET_MAGIC)
             /\ WireMagic(w.bytes) = to_le_bytes(ENCODER_POSITION_MAGIC) <=> w.kind = "position"
             /\ WireMagic(w.bytes) = to_le_bytes(ENCODER_VELOCITY_MAGIC) <=> w.kind = "velocity"
             /\ w.kind = "position" =>
                  \A f \in Channels : Field(from_bytes(w.bytes), f) = PositionValue(f)
             /\ w.kind = "velocity" =>
                  \A f \in Channels : Field(from_bytes(w.bytes), f) = VelocityValue(f)

\* C16 witness: the second cycle has written the velocity packet of a moving
\* robot with one failed sensor
C16_VelocityPacketWritten ==
    /\ pc = "loop"
    /\ cycle = 2
    /\ Len(tx_port) = 1
    /\ tx_port[1].kind = "velocity"
    /\ tx_port[1].ok
    /\ F = {"back_right"}
    /\ motor_velocity["front_left"] # 0

----------------------------------------------------------------------------
(* Properties of the carry-over buffer between calls *)

\* C17: from a successful return of get_motor_packet until the next call, the
\* carry-over buffer holds the magic at no offset at which a 36-byte packet fits;
\* from a timeout return until the next call it is empty.
C17_NoCompletePacketLeftBehind ==
    /\ motor_packet.tag = "Ok" => Matches(persistent_motor_buf) = {}
    /\ motor_packet = TimedOut => Matches(persistent_motor_buf) = {} /\ buf_src = <<>>

\* C17 witness: P1 was returned from a buffer that also held the magic and a
\* part of the payload of P2, which stay in the buffer
C17_PartialPacketRetained ==
    /\ JustReturned
    /\ returned = <<P1Src>>
    /\ Len(persistent_motor_buf) > SizeOfMagic
    /\ MagicAt(persistent_motor_buf, 0)

\* C18: the step in which the transport read fails returns the read error, not
\* TimedOut, straight from the loop of get_motor_packet and leaves the carry-over
\* buffer exactly as it was, whatever the failing read had taken from the port;
\* the buffer then stays as it is until the next call begins, which finds the
\* same bytes carried over.
C18_BufferUnchangedOnReadError ==
    /\ [][motor_packet' = ReadError /\ motor_packet # ReadError =>
            /\ pc = "gmp_while"
            /\ pc' = "dispatch"
            /\ persistent_motor_buf' = persistent_motor_buf
            /\ buf_src' = buf_src]_vars
    /\ [][motor_packet = ReadError =>
            /\ persistent_motor_buf' = persistent_motor_buf
            /\ buf_src' = buf_src
            /\ pc = "loop" => carried' = Len(persistent_motor_buf)]_vars

\* C18 witness: a read failed after taking bytes from the port while the buffer
\* held bytes read earlier in the same call; the buffer still ends where it did
C18_FailedReadTookBytes ==
    /\ pc = "dispatch"
    /\ motor_packet = ReadError
    /\ buf_src # <<>>
    /\ rx_pos > LastByte(buf_src)
    /\ returned = <<>>

====
